---- MODULE Spec2Model ----
(***************************************************************************)
(* Model of scripts/split_tasks.py: the splitter that moves fully          *)
(* completed "## " sections of docs/900_tasks.md to                        *)
(* docs/901_tasks_archived.md and keeps the sections that still hold an    *)
(* unfinished task.                                                        *)
(*                                                                         *)
(* A line is a sequence of symbols.  SP is one whitespace character, every *)
(* other symbol stands for a run of non-whitespace-led text that is never  *)
(* cut: "- [x] t" is a line text beginning with the marker "- [x]",        *)
(* "## A" one beginning with "## ", "# T" one beginning with "# ".  A text *)
(* is a sequence of symbols in which NL is the newline character.          *)
(***************************************************************************)
EXTENDS Integers, Sequences, FiniteSets, TLC

SP == " "
NL == "\n"
TODO == "- [ ] t"
DONE == "- [x] t"
NOTE == "note"
H2A == "## A"
H2B == "## B"
H1 == "# T"
PEND_TITLE == "# pending-title"
PEND_REF == "> see-archive"
ARCH_TITLE == "# archive-title"
ARCH_REF == "> moved-from-tasks"

\* The symbols whose text starts with the given literal prefix.
StartsDone == {DONE}
StartsTodo == {TODO}
StartsH2 == {H2A, H2B}
StartsH1 == {H1, PEND_TITLE, ARCH_TITLE}

-----------------------------------------------------------------------------
\* Bounds of the explored inputs.
MaxBodyLen == 4
MaxLen == 4

Indents == {0, 1, 2}
DocIndents == {0, 1}

RECURSIVE Spaces(_)
Spaces(n) == IF n = 0 THEN <<>> ELSE <<SP>> \o Spaces(n - 1)

\* Lines a section body is drawn from.
BodyAlphabet ==
    {Spaces(n) \o <<t>> : n \in Indents, t \in {TODO, DONE, NOTE}}
        \cup {<<>>, <<SP>>}

\* Lines a document is drawn from.
DocAlphabet ==
    {Spaces(n) \o <<t>> : n \in DocIndents, t \in {TODO, DONE}}
        \cup {<<NOTE>>, <<>>, <<SP>>, <<H2A>>, <<H2B>>, <<H1>>}

SeqsUpTo(S, n) == UNION {[1..k -> S] : k \in 0..n}
NonEmptySeqsUpTo(S, n) == UNION {[1..k -> S] : k \in 1..n}

-----------------------------------------------------------------------------
\* str.lstrip / str.strip / str.startswith on lines.
RECURSIVE lstrip(_)
lstrip(s) == IF s # <<>> /\ Head(s) = SP THEN lstrip(Tail(s)) ELSE s

RECURSIVE rstrip(_)
rstrip(s) ==
    IF s # <<>> /\ s[Len(s)] = SP THEN rstrip(SubSeq(s, 1, Len(s) - 1)) ELSE s

strip(s) == rstrip(lstrip(s))

startswith(s, prefix) == s # <<>> /\ Head(s) \in prefix

is_task_line(line) ==
    LET stripped == strip(line)
    IN  IF startswith(stripped, StartsDone) THEN <<TRUE, TRUE>>
        ELSE IF startswith(stripped, StartsTodo) THEN <<TRUE, FALSE>>
        ELSE <<FALSE, FALSE>>

get_indent(line) == Len(line) - Len(lstrip(line))

-----------------------------------------------------------------------------
\* process_section.  Indices are 1-based: i here is the code's i + 1.

\* The inner while loop (lines 46-59): from cursor j, with the block collected
\* so far, returns the final j and task_block.
\* Faulty variant: a line indented as deep as the task counts as its detail.
RECURSIVE collect_block_eq(_, _, _, _)
collect_block_eq(lines, j, task_indent, task_block) ==
    IF j > Len(lines) THEN [j |-> j, task_block |-> task_block]
    ELSE IF strip(lines[j]) = <<>>
         THEN collect_block_eq(lines, j + 1, task_indent, Append(task_block, lines[j]))
    ELSE IF get_indent(lines[j]) >= task_indent
         THEN collect_block_eq(lines, j + 1, task_indent, Append(task_block, lines[j]))
    ELSE [j |-> j, task_block |-> task_block]

RECURSIVE collect_block(_, _, _, _)
collect_block(lines, j, task_indent, task_block) ==
    IF j > Len(lines) THEN [j |-> j, task_block |-> task_block]
    ELSE IF strip(lines[j]) = <<>>
         THEN collect_block(lines, j + 1, task_indent, Append(task_block, lines[j]))
    ELSE IF get_indent(lines[j]) > task_indent
         THEN collect_block(lines, j + 1, task_indent, Append(task_block, lines[j]))
    ELSE [j |-> j, task_block |-> task_block]

\* Locals of process_section at the head of the outer while loop.  blocks is
\* the history of the scan: one record per iteration, the span [from, to) of
\* indices it consumed and how it was routed.
ps_init(lines) ==
    [lines |-> lines, i |-> 1, pending_lines |-> <<>>, archived_lines |-> <<>>,
     has_pending |-> FALSE, has_completed |-> FALSE, blocks |-> <<>>]

\* Faulty variant: a non-task line is appended to pending_lines only.
ps_step_plain_pending_only(st) ==
    LET line == st.lines[st.i]
        t == is_task_line(line)
    IN  IF t[1]
        THEN LET c == collect_block(st.lines, st.i + 1, get_indent(line), <<line>>)
             IN  IF t[2]
                 THEN [st EXCEPT !.has_completed = TRUE,
                                 !.archived_lines = @ \o c.task_block,
                                 !.i = c.j,
                                 !.blocks = Append(@, [from |-> st.i, to |-> c.j,
                                                       kind |-> "completed"])]
                 ELSE [st EXCEPT !.has_pending = TRUE,
                                 !.pending_lines = @ \o c.task_block,
                                 !.i = c.j,
                                 !.blocks = Append(@, [from |-> st.i, to |-> c.j,
                                                       kind |-> "pending"])]
        ELSE [st EXCEPT !.pending_lines = Append(@, line),
                        !.i = st.i + 1,
                        !.blocks = Append(@, [from |-> st.i, to |-> st.i + 1,
                                              kind |-> "plain"])]

\* One iteration of the outer while loop (lines 37-73).
ps_step(st) ==
    LET line == st.lines[st.i]
        t == is_task_line(line)
    IN  IF t[1]
        THEN LET c == collect_block(st.lines, st.i + 1, get_indent(line), <<line>>)
             IN  IF t[2]
                 THEN [st EXCEPT !.has_completed = TRUE,
                                 !.archived_lines = @ \o c.task_block,
                                 !.i = c.j,
                                 !.blocks = Append(@, [from |-> st.i, to |-> c.j,
                                                       kind |-> "completed"])]
                 ELSE [st EXCEPT !.has_pending = TRUE,
                                 !.pending_lines = @ \o c.task_block,
                                 !.i = c.j,
                                 !.blocks = Append(@, [from |-> st.i, to |-> c.j,
                                                       kind |-> "pending"])]
        ELSE [st EXCEPT !.pending_lines = Append(@, line),
                        !.archived_lines = Append(@, line),
                        !.i = st.i + 1,
                        !.blocks = Append(@, [from |-> st.i, to |-> st.i + 1,
                                              kind |-> "plain"])]

RECURSIVE ps_run(_)
ps_run(st) == IF st.i <= Len(st.lines) THEN ps_run(ps_step(st)) ELSE st

\* The returned tuple (line 75), with the scan history alongside.
ps_result(st) ==
    [pending |-> st.pending_lines, archived |-> st.archived_lines,
     has_pending |-> st.has_pending, blocks |-> st.blocks]

process_section(header, lines) == ps_result(ps_run(ps_init(lines)))

-----------------------------------------------------------------------------
\* str.split("\n") and "\n".join on texts.
RECURSIVE split_from(_, _, _)
split_from(text, cur, acc) ==
    IF text = <<>> THEN Append(acc, cur)
    ELSE IF Head(text) = NL THEN split_from(Tail(text), <<>>, Append(acc, cur))
    ELSE split_from(Tail(text), Append(cur, Head(text)), acc)

split(text) == split_from(text, <<>>, <<>>)

RECURSIVE join(_)
join(ls) ==
    IF ls = <<>> THEN <<>>
    ELSE IF Len(ls) = 1 THEN ls[1]
    ELSE ls[1] \o <<NL>> \o join(Tail(ls))

\* The fixed preambles (lines 86-99).
ArchivePreamble == << <<ARCH_TITLE>>, <<>>, <<ARCH_REF>>, <<>> >>
PendingPreamble == << <<PEND_TITLE>>, <<>>, <<PEND_REF>>, <<>> >>

\* Locals of main at the head of the for loop (lines 86-105).
main_init ==
    [archived_output |-> ArchivePreamble, pending_output |-> PendingPreamble,
     current_header |-> <<>>, current_lines |-> <<>>,
     sections_pending |-> 0, sections_archived |-> 0]

\* Faulty variant: a section with a pending task is also appended to the
\* archive buffer.
flush_both(m) ==
    IF m.current_header # <<>>
    THEN LET r == process_section(m.current_header, m.current_lines)
         IN  IF r.has_pending
             THEN [m EXCEPT !.pending_output = Append(@, m.current_header) \o r.pending,
                            !.archived_output = Append(@, m.current_header) \o r.archived,
                            !.sections_pending = @ + 1]
             ELSE [m EXCEPT !.archived_output = Append(@, m.current_header) \o r.archived,
                            !.sections_archived = @ + 1]
    ELSE m

\* "Process the previous section" (lines 110-119, repeated at 130-139).
flush(m) ==
    IF m.current_header # <<>>
    THEN LET r == process_section(m.current_header, m.current_lines)
         IN  IF r.has_pending
             THEN [m EXCEPT !.pending_output = Append(@, m.current_header) \o r.pending,
                            !.sections_pending = @ + 1]
             ELSE [m EXCEPT !.archived_output = Append(@, m.current_header) \o r.archived,
                            !.sections_archived = @ + 1]
    ELSE m

\* Faulty variant: a new header does not empty current_lines.
loop_body_no_reset(m, line) ==
    IF startswith(line, StartsH2)
    THEN [flush(m) EXCEPT !.current_header = line]
    ELSE IF startswith(line, StartsH1)
    THEN m
    ELSE [m EXCEPT !.current_lines = Append(@, line)]

\* The body of the for loop (lines 108-127).
loop_body(m, line) ==
    IF startswith(line, StartsH2)
    THEN [flush(m) EXCEPT !.current_header = line, !.current_lines = <<>>]
    ELSE IF startswith(line, StartsH1)
    THEN m
    ELSE [m EXCEPT !.current_lines = Append(@, line)]

\* Faulty variant: only the empty string counts as a blank line.
RECURSIVE clean_from_exact_empty(_, _, _)
clean_from_exact_empty(ls, prev_empty, result) ==
    IF ls = <<>> THEN result
    ELSE LET is_empty == Head(ls) = <<>>
         IN  IF is_empty /\ prev_empty
             THEN clean_from_exact_empty(Tail(ls), prev_empty, result)
             ELSE clean_from_exact_empty(Tail(ls), is_empty, Append(result, Head(ls)))

\* clean_empty_lines (lines 142-151).
RECURSIVE clean_from(_, _, _)
clean_from(ls, prev_empty, result) ==
    IF ls = <<>> THEN result
    ELSE LET is_empty == strip(Head(ls)) = <<>>
         IN  IF is_empty /\ prev_empty
             THEN clean_from(Tail(ls), prev_empty, result)
             ELSE clean_from(Tail(ls), is_empty, Append(result, Head(ls)))

clean_empty_lines(ls) == clean_from(ls, FALSE, <<>>)

\* Lines 153-154.
clean_outputs(m) ==
    [m EXCEPT !.pending_output = clean_empty_lines(@),
              !.archived_output = clean_empty_lines(@)]

\* The whole transform of main on a source text, files aside: lines 83-154.
RECURSIVE main_loop(_, _, _)
main_loop(m, ls, k) ==
    IF k > Len(ls) THEN m ELSE main_loop(loop_body(m, ls[k]), ls, k + 1)

transform(content) ==
    LET m == clean_outputs(flush(main_loop(main_init, split(content), 1)))
    IN  [pending_text |-> join(m.pending_output),
         archived_text |-> join(m.archived_output),
         sections_pending |-> m.sections_pending,
         sections_archived |-> m.sections_archived]

-----------------------------------------------------------------------------
\* State.
\*   tasks_file, archive_file  docs/900_tasks.md and docs/901_tasks_archived.md
\*   pc, lines, idx, m         main: position, the split source, the for loop's
\*                             cursor, the locals
\*   source                    what docs/900_tasks.md held when the run began
\*   io                        the file operations attempted so far, in order
\*   ps, ret                   process_section run on its own: locals and the
\*                             returned tuple
VARIABLES tasks_file, archive_file, pc, lines, idx, m, source, io, ps, ret

vars == <<tasks_file, archive_file, pc, lines, idx, m, source, io, ps, ret>>

File(text) == [exists |-> TRUE, text |-> text]
NoFile == [exists |-> FALSE, text |-> <<>>]

NoLocals ==
    [archived_output |-> <<>>, pending_output |-> <<>>,
     current_header |-> <<>>, current_lines |-> <<>>,
     sections_pending |-> 0, sections_archived |-> 0]
NoRet == [pending |-> <<>>, archived |-> <<>>, has_pending |-> FALSE, blocks |-> <<>>]

pending_output == m.pending_output
archived_output == m.archived_output

Documents == {join(ls) : ls \in NonEmptySeqsUpTo(DocAlphabet, MaxLen)}

Init ==
    /\ tasks_file \in {File(d) : d \in Documents} \cup {NoFile}
    /\ archive_file = NoFile
    /\ source = tasks_file
    /\ pc = "read"
    /\ lines = <<>>
    /\ idx = 1
    /\ m = NoLocals
    /\ io = <<>>
    /\ ps = ps_init(<<>>)
    /\ ret = NoRet

\* Line 82 raises: the run ends there.
ReadFails ==
    /\ pc = "read"
    /\ pc' = "failed"
    /\ io' = Append(io, <<"read", FALSE>>)
    /\ UNCHANGED <<tasks_file, archive_file, lines, idx, m, source, ps, ret>>

\* Lines 82-105.
Read ==
    /\ pc = "read"
    /\ tasks_file.exists
    /\ lines' = split(tasks_file.text)
    /\ idx' = 1
    /\ m' = main_init
    /\ pc' = "loop"
    /\ io' = Append(io, <<"read", TRUE>>)
    /\ UNCHANGED <<tasks_file, archive_file, source, ps, ret>>

\* One iteration of the for loop, by the branch taken.
SectionLine ==
    /\ pc = "loop"
    /\ idx <= Len(lines)
    /\ startswith(lines[idx], StartsH2)
    /\ m' = loop_body(m, lines[idx])
    /\ idx' = idx + 1
    /\ UNCHANGED <<tasks_file, archive_file, pc, lines, source, io, ps, ret>>

TitleLine ==
    /\ pc = "loop"
    /\ idx <= Len(lines)
    /\ ~startswith(lines[idx], StartsH2)
    /\ startswith(lines[idx], StartsH1)
    /\ m' = loop_body(m, lines[idx])
    /\ idx' = idx + 1
    /\ UNCHANGED <<tasks_file, archive_file, pc, lines, source, io, ps, ret>>

BodyLine ==
    /\ pc = "loop"
    /\ idx <= Len(lines)
    /\ ~startswith(lines[idx], StartsH2)
    /\ ~startswith(lines[idx], StartsH1)
    /\ m' = loop_body(m, lines[idx])
    /\ idx' = idx + 1
    /\ UNCHANGED <<tasks_file, archive_file, pc, lines, source, io, ps, ret>>

\* Lines 130-139.
LastSection ==
    /\ pc = "loop"
    /\ idx > Len(lines)
    /\ m' = flush(m)
    /\ pc' = "clean"
    /\ UNCHANGED <<tasks_file, archive_file, lines, idx, source, io, ps, ret>>

\* Lines 153-154.
Clean ==
    /\ pc = "clean"
    /\ m' = clean_outputs(m)
    /\ pc' = "write_pending"
    /\ UNCHANGED <<tasks_file, archive_file, lines, idx, source, io, ps, ret>>

\* Faulty variant: the run goes on to the archive after a failed write.
WritePendingFails_goes_on ==
    /\ pc = "write_pending"
    /\ tasks_file' \in {tasks_file, File(<<>>)}
    /\ io' = Append(io, <<"write_tasks", FALSE>>)
    /\ pc' = "write_archive"
    /\ UNCHANGED <<archive_file, lines, idx, m, source, ps, ret>>

\* Line 157.  A failing write_text leaves the file as it was or truncated.
WritePendingFails ==
    /\ pc = "write_pending"
    /\ tasks_file' \in {tasks_file, File(<<>>)}
    /\ io' = Append(io, <<"write_tasks", FALSE>>)
    /\ pc' = "failed"
    /\ UNCHANGED <<archive_file, lines, idx, m, source, ps, ret>>

WritePending ==
    /\ pc = "write_pending"
    /\ tasks_file' = File(join(pending_output))
    /\ io' = Append(io, <<"write_tasks", TRUE>>)
    /\ pc' = "write_archive"
    /\ UNCHANGED <<archive_file, lines, idx, m, source, ps, ret>>

\* Line 158.
WriteArchiveFails ==
    /\ pc = "write_archive"
    /\ archive_file' \in {archive_file, File(<<>>)}
    /\ io' = Append(io, <<"write_archive", FALSE>>)
    /\ pc' = "failed"
    /\ UNCHANGED <<tasks_file, lines, idx, m, source, ps, ret>>

WriteArchive ==
    /\ pc = "write_archive"
    /\ archive_file' = File(join(archived_output))
    /\ io' = Append(io, <<"write_archive", TRUE>>)
    /\ pc' = "done"
    /\ UNCHANGED <<tasks_file, lines, idx, m, source, ps, ret>>

Next ==
    \/ ReadFails
    \/ Read
    \/ SectionLine
    \/ TitleLine
    \/ BodyLine
    \/ LastSection
    \/ Clean
    \/ WritePendingFails
    \/ WritePending
    \/ WriteArchiveFails
    \/ WriteArchive

Spec == Init /\ [][Next]_vars

-----------------------------------------------------------------------------
\* process_section run on its own on every body within the bounds.
Bodies == SeqsUpTo(BodyAlphabet, MaxBodyLen)

InitSection ==
    /\ ps \in {ps_init(b) : b \in Bodies}
    /\ ret = NoRet
    /\ tasks_file = NoFile
    /\ archive_file = NoFile
    /\ source = NoFile
    /\ pc = "section"
    /\ lines = <<>>
    /\ idx = 1
    /\ m = NoLocals
    /\ io = <<>>

\* An iteration of the outer while loop at a task line (lines 40-68).
TaskStep ==
    /\ pc = "section"
    /\ ps.i <= Len(ps.lines)
    /\ is_task_line(ps.lines[ps.i])[1]
    /\ ps' = ps_step(ps)
    /\ UNCHANGED <<tasks_file, archive_file, pc, lines, idx, m, source, io, ret>>

\* An iteration at a non-task line (lines 69-73).
PlainStep ==
    /\ pc = "section"
    /\ ps.i <= Len(ps.lines)
    /\ ~is_task_line(ps.lines[ps.i])[1]
    /\ ps' = ps_step(ps)
    /\ UNCHANGED <<tasks_file, archive_file, pc, lines, idx, m, source, io, ret>>

\* Line 75.
SectionReturn ==
    /\ pc = "section"
    /\ ps.i > Len(ps.lines)
    /\ ret' = ps_result(ps)
    /\ pc' = "returned"
    /\ UNCHANGED <<tasks_file, archive_file, lines, idx, m, source, io, ps>>

NextSection == TaskStep \/ PlainStep \/ SectionReturn

SpecSection == InitSection /\ [][NextSection]_vars

-----------------------------------------------------------------------------
\* Vocabulary of the properties.
Range(s) == {s[k] : k \in DOMAIN s}
Max(S) == CHOOSE x \in S : \A y \in S : y <= x
Min(S) == CHOOSE x \in S : \A y \in S : x <= y

IsTask(l) == is_task_line(l)[1]
IsTodo(l) == is_task_line(l) = <<TRUE, FALSE>>
IsDone(l) == is_task_line(l) = <<TRUE, TRUE>>
IsBlank(l) == strip(l) = <<>>
IsHeader(l) == startswith(l, StartsH2)
IsTitle(l) == ~IsHeader(l) /\ startswith(l, StartsH1)

Count(s, P(_)) == Cardinality({k \in DOMAIN s : P(s[k])})

\* The documents of a finished run, read back from the files.
Done == pc = "done"
SourceLines == split(source.text)
PendingOut == split(tasks_file.text)
ArchiveOut == split(archive_file.text)
\* An output without its four preamble lines.
Content(out) == SubSeq(out, Len(ArchivePreamble) + 1, Len(out))

\* Sections of a document L, by index: the header a line belongs to (0 before
\* the first header), the indices of a header's body lines, and the body.
HeaderOf(L, k) ==
    LET H == {h \in 1..k : IsHeader(L[h])} IN IF H = {} THEN 0 ELSE Max(H)
Headers(L) == {h \in DOMAIN L : IsHeader(L[h])}
BodyIdx(L, h) == {k \in (h + 1)..Len(L) : HeaderOf(L, k) = h /\ ~IsTitle(L[k])}
PosInBody(L, h, k) == Cardinality({j \in BodyIdx(L, h) : j <= k})
BodyOf(L, h) ==
    [p \in 1..Cardinality(BodyIdx(L, h)) |->
        L[CHOOSE k \in BodyIdx(L, h) : PosInBody(L, h, k) = p]]

\* The first following non-blank line indented no deeper than line i, or the
\* end of the body.
BlockEnd(ls, i) ==
    LET d == get_indent(ls[i])
        stop == {k \in (i + 1)..Len(ls) : ~IsBlank(ls[k]) /\ get_indent(ls[k]) <= d}
    IN  IF stop = {} THEN Len(ls) + 1 ELSE Min(stop)

\* The lines of the spans of the given kinds, in order.
RECURSIVE Gather(_, _, _)
Gather(ls, blocks, kinds) ==
    IF blocks = <<>> THEN <<>>
    ELSE (IF Head(blocks).kind \in kinds
          THEN SubSeq(ls, Head(blocks).from, Head(blocks).to - 1) ELSE <<>>)
         \o Gather(ls, Tail(blocks), kinds)

-----------------------------------------------------------------------------
\* C8  Block collection: at a task line at index i with indentation d the scan
\* moves to j, the first following line that is non-blank and indented at most
\* d (the body's end if there is none); the block routed is exactly
\* lines[i..j-1], and every line of it after the marker is blank or indented
\* deeper than d.
C8_BlockCollection ==
    [][(pc = "section" /\ ps.i <= Len(ps.lines) /\ IsTask(ps.lines[ps.i]))
        => LET i == ps.i
               d == get_indent(ps.lines[i])
               j == BlockEnd(ps.lines, i)
               block == SubSeq(ps.lines, i, j - 1)
           IN  /\ ps'.i = j
               /\ \A k \in (i + 1)..(j - 1) :
                      IsBlank(ps.lines[k]) \/ get_indent(ps.lines[k]) > d
               /\ IF IsDone(ps.lines[i])
                  THEN /\ ps'.archived_lines = ps.archived_lines \o block
                       /\ ps'.pending_lines = ps.pending_lines
                  ELSE /\ ps'.pending_lines = ps.pending_lines \o block
                       /\ ps'.archived_lines = ps.archived_lines]_vars

\* A block with a detail line that ends at a task marker of equal indentation,
\* and a last block that took the blank line ending the body.
C8_Witness ==
    /\ pc = "returned"
    /\ \E a, b \in Range(ret.blocks) :
        /\ a.kind # "plain" /\ a.to - a.from >= 2 /\ a.to <= Len(ps.lines)
        /\ ~IsBlank(ps.lines[a.from + 1])
        /\ IsTask(ps.lines[a.to])
        /\ get_indent(ps.lines[a.to]) = get_indent(ps.lines[a.from])
        /\ b.kind # "plain" /\ b.to = Len(ps.lines) + 1 /\ b.to - b.from >= 2
        /\ IsBlank(ps.lines[Len(ps.lines)])

\* C9  Section partitioning: the iterations of the scan consume the body in
\* consecutive non-empty spans starting at the first line and ending at the
\* cursor, each a single non-task line or a block led by a task marker of its
\* kind; pending_lines is the non-task lines and pending blocks in order,
\* archived_lines the non-task lines and completed blocks in order; has_pending
\* holds iff a pending block was collected; the scan returns with the body
\* exhausted.
C9_SectionPartition ==
    pc \in {"section", "returned"} =>
        LET B == ps.blocks
            ls == ps.lines
        IN  /\ IF B = <<>> THEN ps.i = 1
                           ELSE B[1].from = 1 /\ B[Len(B)].to = ps.i
            /\ ps.i <= Len(ls) + 1
            /\ \A k \in 1..(Len(B) - 1) : B[k + 1].from = B[k].to
            /\ \A k \in DOMAIN B :
                /\ B[k].from < B[k].to
                /\ B[k].kind = "plain" =>
                       B[k].to = B[k].from + 1 /\ ~IsTask(ls[B[k].from])
                /\ B[k].kind = "pending" => IsTodo(ls[B[k].from])
                /\ B[k].kind = "completed" => IsDone(ls[B[k].from])
            /\ ps.pending_lines = Gather(ls, B, {"plain", "pending"})
            /\ ps.archived_lines = Gather(ls, B, {"plain", "completed"})
            /\ ps.has_pending <=> \E k \in DOMAIN B : B[k].kind = "pending"
            /\ pc = "returned" =>
                /\ ps.i = Len(ls) + 1
                /\ ret.pending = ps.pending_lines
                /\ ret.archived = ps.archived_lines
                /\ ret.has_pending = ps.has_pending

\* A returned scan that met a non-task line, a pending block and a completed
\* block with a detail line.
C9_Witness ==
    /\ pc = "returned"
    /\ \E a, b, c \in Range(ret.blocks) :
        /\ a.kind = "plain" /\ b.kind = "pending" /\ c.kind = "completed"
        /\ c.to - c.from >= 2

-----------------------------------------------------------------------------
\* C1  Task conservation, as claimed: the "- [x]" lines of the archive output
\* plus the "- [ ]" lines of the pending output number as many as the task
\* marker lines of the source.
C1_TaskConservation ==
    Done => Count(ArchiveOut, IsDone) + Count(PendingOut, IsTodo)
                = Count(SourceLines, IsTask)

\* No task marker line precedes the first header, and no section holds both a
\* "- [x]" and a "- [ ]" marker line.
Unmixed(L) ==
    /\ \A k \in DOMAIN L : IsTask(L[k]) => HeaderOf(L, k) # 0
    /\ \A k, n \in DOMAIN L :
           (IsTodo(L[k]) /\ IsDone(L[n])) => HeaderOf(L, k) # HeaderOf(L, n)

\* C1  amended: the two counts together never exceed the number of task
\* marker lines of the source, and equal it when no task marker line precedes
\* the first header and no section holds marker lines of both kinds.
C1_TaskConservationAmended ==
    Done =>
        /\ Count(ArchiveOut, IsDone) + Count(PendingOut, IsTodo)
               <= Count(SourceLines, IsTask)
        /\ Unmixed(SourceLines) =>
               Count(ArchiveOut, IsDone) + Count(PendingOut, IsTodo)
                   = Count(SourceLines, IsTask)

\* A finished run on an unmixed source that put a completed task in the
\* archive and a pending one in the pending output.
C1_Witness ==
    /\ Done
    /\ Unmixed(SourceLines)
    /\ Count(ArchiveOut, IsDone) >= 1
    /\ Count(PendingOut, IsTodo) >= 1

\* C2  Completeness, as claimed: of a non-empty source, every line that is not
\* a title line appears in the pending or the archive output, preambles aside.
C2_Completeness ==
    (Done /\ source.text # <<>>) =>
        \A k \in DOMAIN SourceLines :
            ~IsTitle(SourceLines[k]) =>
                SourceLines[k] \in Range(Content(PendingOut))
                                       \cup Range(Content(ArchiveOut))

\* Line k of L lies in a completed task block of a section that holds a
\* pending block.
InDroppedBlock(L, k) ==
    LET h == HeaderOf(L, k)
        r == process_section(L[h], BodyOf(L, h))
        p == PosInBody(L, h, k)
    IN  /\ h # 0 /\ h # k
        /\ r.has_pending
        /\ \E b \in Range(r.blocks) :
               b.from <= p /\ p < b.to /\ b.kind = "completed"

Kept(L, k) ==
    /\ ~IsTitle(L[k])
    /\ ~IsBlank(L[k])
    /\ HeaderOf(L, k) # 0
    /\ ~InDroppedBlock(L, k)

\* C2  amended: every non-blank source line that is not a title line, does not
\* precede the first header and does not lie in a completed task block of a
\* section holding a pending block appears in the pending or the archive
\* output, preambles aside.
C2_CompletenessAmended ==
    Done =>
        \A k \in DOMAIN SourceLines :
            Kept(SourceLines, k) =>
                SourceLines[k] \in Range(Content(PendingOut))
                                       \cup Range(Content(ArchiveOut))

\* A finished run whose source has a kept body line in a section with a
\* pending block, a line of a dropped completed block, and a line before the
\* first header.
C2_Witness ==
    /\ Done
    /\ \E k, n \in DOMAIN SourceLines :
        /\ Kept(SourceLines, k) /\ ~IsHeader(SourceLines[k])
        /\ InDroppedBlock(SourceLines, n)
    /\ HeaderOf(SourceLines, 1) = 0

\* A flush of the for loop is about to run: a header is current and the loop
\* is at the next header or past the last line.
AtFlush ==
    /\ pc = "loop"
    /\ m.current_header # <<>>
    /\ idx > Len(lines) \/ IsHeader(lines[idx])

\* A "- [ ]" marker line indented no deeper than any task marker line before
\* it in the body: no block before it can take it as a detail line.
HasLeadingTodo(body) ==
    \E k \in DOMAIN body :
        /\ IsTodo(body[k])
        /\ \A n \in 1..(k - 1) :
               IsTask(body[n]) => get_indent(body[k]) <= get_indent(body[n])

C4_MarkerSeparation ==
    Done => /\ Count(PendingOut, IsDone) = 0
            /\ Count(ArchiveOut, IsTodo) = 0

\* C5  Disjoint routing, as claimed: no header line appears in both outputs.
C5_DisjointHeaders ==
    Done => ~\E k \in DOMAIN PendingOut :
                /\ IsHeader(PendingOut[k])
                /\ PendingOut[k] \in Range(ArchiveOut)

DistinctHeaders(L) == \A h, g \in Headers(L) : L[h] = L[g] => h = g

\* C5  amended: the header lines of the two outputs together number as many
\* as those of the source, and when the headers of the source are pairwise
\* distinct no header line appears in both outputs.
C5_DisjointHeadersAmended ==
    Done =>
        /\ Count(PendingOut, IsHeader) + Count(ArchiveOut, IsHeader)
               = Count(SourceLines, IsHeader)
        /\ DistinctHeaders(SourceLines) =>
               ~\E k \in DOMAIN PendingOut :
                    /\ IsHeader(PendingOut[k])
                    /\ PendingOut[k] \in Range(ArchiveOut)

\* A finished run on a source with two distinct headers, one section in each
\* output.
C5_Witness ==
    /\ Done
    /\ DistinctHeaders(SourceLines)
    /\ Count(PendingOut, IsHeader) = 1
    /\ Count(ArchiveOut, IsHeader) = 1

NoBlankRun(ls) == \A k \in 1..(Len(ls) - 1) : ~(IsBlank(ls[k]) /\ IsBlank(ls[k + 1]))

\* ls without the blank lines that directly follow a blank line.
Collapsed(ls) ==
    LET keep == {k \in DOMAIN ls : ~(k > 1 /\ IsBlank(ls[k]) /\ IsBlank(ls[k - 1]))}
        pos(k) == Cardinality({j \in keep : j <= k})
    IN  [p \in 1..Cardinality(keep) |-> ls[CHOOSE k \in keep : pos(k) = p]]

\* C6  Blank-line collapse: the cleaning step leaves in each buffer, preamble
\* included, no two consecutive blank lines (blank: stripping yields the
\* empty string); it removes exactly the blank lines that follow a blank
\* line, so every non-blank line stays, in order; the files written hold no
\* two consecutive blank lines either.
C6_BlankCollapse ==
    [][/\ pc = "clean" =>
            /\ NoBlankRun(pending_output') /\ NoBlankRun(archived_output')
            /\ pending_output' = Collapsed(pending_output)
            /\ archived_output' = Collapsed(archived_output)
            /\ SelectSeq(pending_output', LAMBDA l : ~IsBlank(l))
                   = SelectSeq(pending_output, LAMBDA l : ~IsBlank(l))
            /\ SelectSeq(archived_output', LAMBDA l : ~IsBlank(l))
                   = SelectSeq(archived_output, LAMBDA l : ~IsBlank(l))
       /\ pc' = "done" => NoBlankRun(split(tasks_file'.text))
                          /\ NoBlankRun(split(archive_file'.text))]_vars

\* Cleaning has shortened the archive buffer at a run of blank lines that are
\* not all the empty string.
C6_Witness ==
    /\ pc = "write_pending"
    /\ LET raw == flush(main_loop(main_init, lines, 1))
       IN  /\ Len(archived_output) < Len(raw.archived_output)
           /\ \E k \in 1..(Len(raw.archived_output) - 1) :
                  /\ IsBlank(raw.archived_output[k])
                  /\ raw.archived_output[k + 1] = <<SP>>

\* C7  Write ordering on failure: the file operations run in the order read,
\* write of the pending output, write of the archive output, each at most
\* once and none after one that failed; a failed read ends the run with both
\* files as they were; the archive file changes only after the pending output
\* was written.
C7_WriteOrder ==
    LET ops == <<"read", "write_tasks", "write_archive">>
    IN  /\ Len(io) <= 3
        /\ \A k \in DOMAIN io : io[k][1] = ops[k]
        /\ \A k \in 1..(Len(io) - 1) : io[k][2]
        /\ (io # <<>> /\ ~io[Len(io)][2]) => pc = "failed"
        /\ (Len(io) >= 1 /\ ~io[1][2]) =>
               tasks_file = source /\ archive_file = NoFile
        /\ Len(io) < 2 => tasks_file = source
        /\ Len(io) < 3 => archive_file = NoFile
        /\ (Len(io) >= 2 /\ io[2][2]) => tasks_file = File(join(pending_output))
        /\ (Len(io) = 3 /\ io[3][2]) =>
               pc = "done" /\ archive_file = File(join(archived_output))

\* The write of the pending output has failed, truncating the file, and the
\* run has ended without touching the archive.
C7_Witness ==
    /\ pc = "failed"
    /\ Len(io) = 2
    /\ tasks_file # source
    /\ archive_file = NoFile

\* C10  Idempotence on re-run: the transform applied to the pending output
\* text of a finished run yields that text again as pending output, and as
\* archive output the archive preamble alone, with no section routed to it.
C10_RerunIdempotent ==
    Done =>
        LET again == transform(tasks_file.text)
        IN  /\ again.pending_text = tasks_file.text
            /\ again.archived_text = join(ArchivePreamble)
            /\ again.sections_archived = 0

\* A finished run that kept a section, dropped a completed block from it and
\* archived another section.
C10_Witness ==
    /\ Done
    /\ m.sections_pending = 1
    /\ m.sections_archived = 1
    /\ \E k \in DOMAIN SourceLines : InDroppedBlock(SourceLines, k)

====
